---- MODULE Spec2Model ----
(***************************************************************************)
(* Model of tools/api_tools.py: the record normalisation done by           *)
(* process_results and get_item_details, and the load / merge / write      *)
(* cycle on the JSON cache files under queries/ and items/.                *)
(*                                                                         *)
(* JSON values are tagged records [t, v]: t is the Python type of the      *)
(* value and v its content as a sequence (the characters of a str, the     *)
(* elements of a list).  A key that a dict does not hold is the value      *)
(* Absent.  Three specifications share the variables:                      *)
(*   SpecNorm  the record building alone, on every raw record of a domain  *)
(*   Spec      whole calls of process_results and get_item_details, one    *)
(*             after the other, every file operation succeeding            *)
(*   SpecConc  two invocations of process_results on one bucket, split at  *)
(*             their file operations, with writes that may fail            *)
(* The identifiers of the records are strings, as the upstream API gives   *)
(* them (the URL of the item).                                             *)
(***************************************************************************)
EXTENDS Integers, Sequences, FiniteSets, TLC

VARIABLES disk, last, rep, procs, lastWrite, nraw, nout, npc

vars == <<disk, last, rep, procs, lastWrite, nraw, nout, npc>>

(***************************************************************************)
(* Bounds of the input domains.                                            *)
(***************************************************************************)
MaxStrLen == 2
MaxListLen == 2
MaxBatch == 2

(***************************************************************************)
(* JSON / Python values.                                                   *)
(***************************************************************************)
Absent == [t |-> "absent", v |-> <<>>]
Null == [t |-> "null", v |-> <<>>]
True == [t |-> "true", v |-> <<>>]
False == [t |-> "false", v |-> <<>>]
Str(s) == [t |-> "str", v |-> s]
List(s) == [t |-> "list", v |-> s]

EmptyStr == Str(<<>>)
NoneMarker == Str(<<"N", "o", "n", "e">>)

\* bool(x) of Python
Truthy(x) ==
    CASE x.t \in {"str", "list"} -> Len(x.v) > 0
      [] x.t = "true" -> TRUE
      [] OTHER -> FALSE

\* whether len(x) and iteration over x are defined (str, list); None and
\* bool raise TypeError
Sized(x) == x.t \in {"str", "list"}

\* the elements a for-loop over x visits: the characters of a str, the
\* elements of a list
Elements(x) ==
    IF x.t = "str" THEN [i \in 1..Len(x.v) |-> Str(<<x.v[i]>>)] ELSE x.v

\* x[0]
First(x) == Elements(x)[1]

\* item.get(key, default), given the value stored under the key
Get(stored, default) == IF stored = Absent THEN default ELSE stored

Ok(x) == [err |-> "none", val |-> x]
Raise(e) == [err |-> e, val |-> Null]

(***************************************************************************)
(* The record building of process_results (lines 148-157) and of           *)
(* get_item_details (lines 58-68).                                         *)
(***************************************************************************)
\* src/tools/api_tools.py:150 and :60
\*   [c for c in item.get('contributors',"") or item.get("contributor","")]
Contributors(item) ==
    LET plural == Get(item.contributors, EmptyStr)
        chosen == IF Truthy(plural) THEN plural ELSE Get(item.contributor, EmptyStr)
    IN  IF Sized(chosen) THEN Ok(List(Elements(chosen))) ELSE Raise("TypeError")

\* src/tools/api_tools.py:153 and :64
\*   item.get("image_url", ["None"])[0] if 0 < len(item.get("image_url"))
\*   else item.get("image_url", ["None"])
Thumbnail(item) ==
    LET probe == Get(item.image_url, Null)
        value == Get(item.image_url, List(<<NoneMarker>>))
    IN  IF ~Sized(probe) THEN Raise("TypeError")
        ELSE IF 0 < Len(probe.v) THEN Ok(First(value))
        ELSE Ok(value)

\* the dict literal of process_results; the key "contributor[s]" is the
\* field contributors
item_info_search(item) ==
    LET c == Contributors(item)
        th == Thumbnail(item)
    IN  IF c.err # "none" THEN Raise(c.err)
        ELSE IF th.err # "none" THEN Raise(th.err)
        ELSE Ok([title |-> Get(item.title, EmptyStr),
                 contributors |-> c.val,
                 description |-> Get(item.description, EmptyStr),
                 link |-> Get(item.id, EmptyStr),
                 thumbnail |-> th.val,
                 digitized |-> Get(item.digitized, False),
                 genre |-> Get(item.genre, Null),
                 subjects |-> Get(item.subject, Null)])

\* the dict literal of get_item_details: the same with "date"
item_info_item(item) ==
    LET c == Contributors(item)
        th == Thumbnail(item)
    IN  IF c.err # "none" THEN Raise(c.err)
        ELSE IF th.err # "none" THEN Raise(th.err)
        ELSE Ok([title |-> Get(item.title, EmptyStr),
                 contributors |-> c.val,
                 description |-> Get(item.description, EmptyStr),
                 date |-> Get(item.date, EmptyStr),
                 link |-> Get(item.id, EmptyStr),
                 thumbnail |-> th.val,
                 digitized |-> Get(item.digitized, False),
                 genre |-> Get(item.genre, Null),
                 subjects |-> Get(item.subject, Null)])

\* one pass of the loop body of process_results up to the dict literal:
\* item['id'] raises KeyError when the key is missing (line 147)
NormalizeSearchRecord(item) ==
    IF item.id = Absent THEN Raise("KeyError") ELSE item_info_search(item)

(***************************************************************************)
(* The raw records of the normalisation domain.                            *)
(***************************************************************************)
StrOf(n) == Str([i \in 1..n |-> IF i = 1 THEN "X" ELSE "Y"])
ListOf(n) == List([i \in 1..n |-> StrOf(i)])
StrVals == {StrOf(n) : n \in 0..MaxStrLen}
ListVals == {ListOf(n) : n \in 0..MaxListLen}

IdA == Str(<<"A">>)
IdB == Str(<<"B">>)
IdC == Str(<<"C">>)

RawRecords ==
    [title : {Absent, Null, StrOf(1)},
     contributors : {Absent, Null} \cup ListVals,
     contributor : {Absent, Null} \cup StrVals \cup ListVals,
     description : {Absent, Null, StrOf(1)},
     date : {Absent, Null, StrOf(1)},
     id : {Absent, Null, IdA},
     image_url : {Absent, Null} \cup StrVals \cup ListVals,
     digitized : {Absent, Null, True},
     genre : {Absent, Null, ListOf(1)},
     subject : {Absent, Null, ListOf(1)}]

EmptyRecord ==
    [title |-> Absent, contributors |-> Absent, contributor |-> Absent,
     description |-> Absent, date |-> Absent, id |-> Absent,
     image_url |-> Absent, digitized |-> Absent, genre |-> Absent,
     subject |-> Absent]

(***************************************************************************)
(* Bucket names and paths.  A str is its sequence of characters.           *)
(***************************************************************************)
\* str.lower() on the characters the inputs use
LowerChar(c) ==
    CASE c = "A" -> "a"
      [] c = "B" -> "b"
      [] c = "X" -> "x"
      [] OTHER -> c

\* s.lower().replace(" ", "_")   (lines 46 and 133)
BucketName(s) ==
    [i \in 1..Len(s) |-> IF s[i] = " " THEN "_" ELSE LowerChar(s[i])]

\* "http" in s
HasHttp(s) ==
    \E i \in 1..Len(s) : i + 3 <= Len(s) /\ SubSeq(s, i, i + 3) = <<"h", "t", "t", "p">>

\* s.strip('/')
RECURSIVE StripSlashes(_)
StripSlashes(s) ==
    IF s = <<>> THEN s
    ELSE IF Head(s) = "/" THEN StripSlashes(Tail(s))
    ELSE IF s[Len(s)] = "/" THEN StripSlashes(SubSeq(s, 1, Len(s) - 1))
    ELSE s

\* s.split('/')[-1]
RECURSIVE LastSegment(_)
LastSegment(s) ==
    IF \E i \in 1..Len(s) : s[i] = "/"
    THEN LastSegment(Tail(s))
    ELSE s

\* line 39
ItemIdOf(item_id) ==
    IF HasHttp(item_id) THEN LastSegment(StripSlashes(item_id)) ELSE item_id

\* os.path.join("queries", ..., "items_info.json")   (lines 133-136)
QueryPath(query) == <<"queries", BucketName(query), "items_info.json">>

\* os.path.join("items", ..., "item_info.json")   (lines 46-49)
ItemPath(id) == <<"items", BucketName(id), "item_info.json">>

(***************************************************************************)
(* Files.  A file is absent, or holds text: the text json.dump wrote for a *)
(* document (kind "json"), or text that does not parse (kind "garbage": an *)
(* empty or cut-off file, of len characters).                              *)
(***************************************************************************)
EmptyMap == [k \in {} |-> Null]
NoFile == [kind |-> "absent"]
Garbage(n) == [kind |-> "garbage", len |-> n]

RECURSIVE SumSeq(_)
SumSeq(s) == IF s = <<>> THEN 0 ELSE Head(s) + SumSeq(Tail(s))

\* the characters json.dumps(x, indent=2) writes for a value at a nesting
\* level: an element of a non-empty list sits on its own line, indented
RECURSIVE JsonLen(_, _)
JsonLen(x, level) ==
    CASE x.t = "str" -> Len(x.v) + 2
      [] x.t = "null" -> 4
      [] x.t = "true" -> 4
      [] x.t = "false" -> 5
      [] x.t = "list" ->
            IF Len(x.v) = 0 THEN 2
            ELSE 2 + SumSeq([i \in 1..Len(x.v) |->
                               2 * (level + 1) + JsonLen(x.v[i], level + 1)])
                   + 2 * (Len(x.v) - 1) + 1 + 2 * level + 1

\* the same for a dict, given for each key the length of its name and the
\* length of its value
ObjectLen(entries, level) ==
    IF Len(entries) = 0 THEN 2
    ELSE 2 + SumSeq([i \in 1..Len(entries) |->
                       2 * (level + 1) + entries[i][1] + 2 + 2 + entries[i][2]])
           + 2 * (Len(entries) - 1) + 1 + 2 * level + 1

\* a record of process_results, in the key order of the dict literal
SearchRecordLen(r, level) ==
    ObjectLen(<< <<5, JsonLen(r.title, level + 1)>>,
                 <<14, JsonLen(r.contributors, level + 1)>>,
                 <<11, JsonLen(r.description, level + 1)>>,
                 <<4, JsonLen(r.link, level + 1)>>,
                 <<9, JsonLen(r.thumbnail, level + 1)>>,
                 <<9, JsonLen(r.digitized, level + 1)>>,
                 <<5, JsonLen(r.genre, level + 1)>>,
                 <<8, JsonLen(r.subjects, level + 1)>> >>, level)

RECURSIVE SetToSeq(_)
SetToSeq(S) ==
    IF S = {} THEN <<>>
    ELSE LET x == CHOOSE y \in S : TRUE IN <<x>> \o SetToSeq(S \ {x})

MappingLen(m) ==
    LET keys == SetToSeq(DOMAIN m)
    IN  ObjectLen([i \in 1..Len(keys) |->
                     <<Len(keys[i].v), SearchRecordLen(m[keys[i]], 1)>>], 0)

\* json.dump(items_info, json_file, indent=2)   (line 161)
DumpMapping(m) == [kind |-> "json", doc |-> m]

\* json.dump(item_info, json_file, indent=2)   (line 71)
DumpItem(r) == [kind |-> "json", doc |-> r]

\* Load as it would be if the loaded mapping were dropped (as the dict of
\* get_item_details is, which line 58 replaces)
LoadDiscard(file) == Ok(EmptyMap)

\* Load as it would be without the except clause for text that does not
\* parse
LoadNoRecovery(file) ==
    IF file.kind = "json" THEN Ok(file.doc)
    ELSE IF file.kind = "absent" THEN Ok(EmptyMap)
    ELSE [err |-> "JSONDecodeError", val |-> EmptyMap]

\* lines 138-142 and 51-55: json.load of the file; a missing file and text
\* that does not parse both give {}
Load(file) == IF file.kind = "json" THEN Ok(file.doc) ELSE Ok(EmptyMap)

(***************************************************************************)
(* process_results: the merge.                                             *)
(***************************************************************************)
\* Upsert as it would be if a recurring identifier were merged field by
\* field: a field the new record leaves empty keeps the old value
UpsertFieldMerge(items_info, id, item_info) ==
    [k \in DOMAIN items_info \cup {id} |->
        IF k # id THEN items_info[k]
        ELSE IF id \notin DOMAIN items_info THEN item_info
        ELSE [f \in DOMAIN item_info |->
                 IF Truthy(item_info[f]) THEN item_info[f] ELSE items_info[id][f]]]

\* Upsert as it would be if the contributors of a recurring identifier were
\* added to the ones already stored
UpsertAccumulate(items_info, id, item_info) ==
    [k \in DOMAIN items_info \cup {id} |->
        IF k # id THEN items_info[k]
        ELSE IF id \notin DOMAIN items_info THEN item_info
        ELSE [item_info EXCEPT !.contributors =
                 List(items_info[id].contributors.v \o @.v)]]

\* items_info[item['id']] = item_info   (line 158)
Upsert(items_info, id, item_info) ==
    [k \in DOMAIN items_info \cup {id} |->
        IF k = id THEN item_info ELSE items_info[k]]

\* the for loop (lines 144-158): it stops at the first record that raises,
\* with the dict as merged so far
RECURSIVE MergeLoop(_, _, _)
MergeLoop(results, items_info, item_ids) ==
    IF results = <<>>
    THEN [err |-> "none", items_info |-> items_info, item_ids |-> item_ids]
    ELSE LET item == Head(results)
             n == NormalizeSearchRecord(item)
         IN  IF n.err # "none"
             THEN [err |-> n.err, items_info |-> items_info, item_ids |-> item_ids]
             ELSE MergeLoop(Tail(results),
                            Upsert(items_info, item.id, n.val),
                            Append(item_ids, item.id))

\* Persisted as it would be if the file were written on every path out of
\* the loop
PersistedAlways(before, merged) == DumpMapping(merged.items_info)

\* the file after the call: the write (lines 160-161) is reached only when
\* the loop raised nothing
Persisted(before, merged) ==
    IF merged.err = "none" THEN DumpMapping(merged.items_info) ELSE before

(***************************************************************************)
(* SpecNorm: the record building applied to every raw record.              *)
(***************************************************************************)
NoCall == [op |-> "none"]
NoRep == [is |-> FALSE]

InitNorm ==
    /\ nraw \in RawRecords
    /\ nout = Raise("unset")
    /\ npc = "start"
    /\ disk = <<>>
    /\ last = NoCall
    /\ rep = NoRep
    /\ procs = <<>>
    /\ lastWrite = NoCall

NormalizeSearch ==
    /\ npc = "start"
    /\ nout' = NormalizeSearchRecord(nraw)
    /\ npc' = "search"
    /\ UNCHANGED <<nraw, disk, last, rep, procs, lastWrite>>

NormalizeItem ==
    /\ npc = "start"
    /\ nout' = item_info_item(nraw)
    /\ npc' = "item"
    /\ UNCHANGED <<nraw, disk, last, rep, procs, lastWrite>>

NextNorm == NormalizeSearch \/ NormalizeItem

SpecNorm == InitNorm /\ [][NextNorm]_vars

(***************************************************************************)
(* Spec: whole calls, one after the other.  last records the call that     *)
(* ran last: its arguments, the file it found, and what it returned or     *)
(* raised.  rep records, when the call repeated the arguments of the call  *)
(* before it, what that call returned and left on disk.                    *)
(***************************************************************************)
Raw(id, title, contributor, image_url) ==
    [EmptyRecord EXCEPT !.id = id, !.title = title,
                        !.contributor = contributor, !.image_url = image_url]

\* the raw records of the searches: records that normalise (for A with and
\* without title and contributor) and one without id
SearchInputs ==
    {Raw(IdA, Absent, Absent, ListOf(1)),
     Raw(IdA, StrOf(1), ListOf(1), ListOf(1)),
     Raw(IdB, Absent, Absent, ListOf(1)),
     Raw(IdC, Absent, Absent, ListOf(1)),
     Raw(Absent, Absent, Absent, ListOf(1))}

Batches == UNION {[1..n -> SearchInputs] : n \in 0..MaxBatch}

\* the query of the searches; its bucket is a_b
Queries == {<<"A", " ", "b">>}

ItemIds == {<<"A">>, <<"h", "t", "t", "p", ":", "/", "/", "x", "/", "A", "/">>}

\* the items fetched: one that normalises, one without image_url
ItemInputs ==
    {Raw(IdA, StrOf(1), Absent, ListOf(1)),
     Raw(IdA, StrOf(1), Absent, Absent)}

Paths ==
    {QueryPath(q) : q \in Queries} \cup {ItemPath(ItemIdOf(i)) : i \in ItemIds}

\* no call has run; a bucket file of an earlier run is missing or was left
\* cut off by a write that failed
Init ==
    /\ disk \in [Paths -> {NoFile, Garbage(0)}]
    /\ last = NoCall
    /\ rep = NoRep
    /\ procs = <<>>
    /\ lastWrite = NoCall
    /\ nraw = EmptyRecord
    /\ nout = Raise("unset")
    /\ npc = "unused"

\* lines 129-164
process_results(query, results) ==
    \E file_path \in {QueryPath(query)} :
    \E loaded \in {Load(disk[file_path])} :
    \E merged \in {MergeLoop(results, loaded.val, <<>>)} :
    \E err \in {IF loaded.err # "none" THEN loaded.err ELSE merged.err} :
        /\ disk' = [disk EXCEPT ![file_path] =
                       IF loaded.err # "none" THEN @ ELSE Persisted(@, merged)]
        /\ last' = [op |-> "process_results", path |-> file_path,
                    results |-> results, before |-> disk[file_path],
                    err |-> err,
                    item_ids |-> IF err = "none" THEN merged.item_ids ELSE <<>>,
                    items_info |-> IF err = "none" THEN merged.items_info
                                   ELSE EmptyMap]
        /\ rep' = IF /\ last.op = "process_results"
                     /\ last.path = file_path
                     /\ last.results = results
                  THEN [is |-> TRUE, err |-> last.err,
                        item_ids |-> last.item_ids,
                        items_info |-> last.items_info,
                        file |-> disk[file_path]]
                  ELSE NoRep
        /\ UNCHANGED <<procs, lastWrite, nraw, nout, npc>>

\* lines 29-74; item is response['item']
get_item_details(item_id, item) ==
    \E id \in {ItemIdOf(item_id)} :
    \E file_path \in {ItemPath(id)} :
    \E loaded \in {Load(disk[file_path])} :
    \E item_info \in {item_info_item(item)} :
    \E err \in {IF loaded.err # "none" THEN loaded.err ELSE item_info.err} :
        /\ disk' = [disk EXCEPT ![file_path] =
                       IF err = "none" THEN DumpItem(item_info.val) ELSE @]
        /\ last' = [op |-> "get_item_details", path |-> file_path,
                    item_id |-> id, item |-> item,
                    before |-> disk[file_path], err |-> err,
                    item_info |-> IF err = "none" THEN item_info.val ELSE Null]
        /\ rep' = NoRep
        /\ UNCHANGED <<procs, lastWrite, nraw, nout, npc>>

Next ==
    \/ \E query \in Queries, results \in Batches : process_results(query, results)
    \/ \E item_id \in ItemIds, item \in ItemInputs : get_item_details(item_id, item)

Spec == Init /\ [][Next]_vars

(***************************************************************************)
(* SpecConc: two invocations of process_results on the bucket of one       *)
(* query, each a sequence of steps split where it touches the file: the    *)
(* load (lines 138-142), the loop (144-158), open(file_path, "w") (160),   *)
(* which creates or empties the file, and json.dump with the close of the  *)
(* file (161), which writes the text at the start of the file.  Every      *)
(* invocation has its own file object, so a text written over a longer     *)
(* text that the other invocation wrote after this one's open leaves the   *)
(* end of the longer text behind it.  A write may fail (no space, an I/O   *)
(* error); of the outcomes of a failed write the model has the one in      *)
(* which nothing was written.  The texts are far below the size of the     *)
(* write buffer, so each is written in one piece.                          *)
(*                                                                         *)
(* procs[p] is the invocation p: where it is, its batch, its dict, how its *)
(* last call ended and whether that call ran with no other call in         *)
(* flight.  lastWrite is the last write that completed: who wrote and      *)
(* what; failed tells whether some write has failed.                       *)
(***************************************************************************)
Procs == {1, 2}

ConcBatches ==
    {<<>>,
     <<Raw(IdA, StrOf(1), ListOf(1), ListOf(1))>>,
     <<Raw(IdB, Absent, Absent, ListOf(1))>>,
     <<Raw(Absent, Absent, Absent, ListOf(1))>>}

Idle(err, results, alone) ==
    [pc |-> "idle", path |-> <<>>, results |-> results,
     items_info |-> EmptyMap, err |-> err, alone |-> alone]

\* the number of characters of the text of a file
TextLen(file) ==
    CASE file.kind = "json" -> MappingLen(file.doc)
      [] file.kind = "garbage" -> file.len
      [] OTHER -> 0

\* the file after a text is written at its start: the text alone when it
\* is at least as long as what the file held, else the text followed by the
\* rest of what the file held, which does not parse
WriteOver(text, file) ==
    IF TextLen(text) >= TextLen(file) THEN text ELSE Garbage(TextLen(file))

InitConc ==
    /\ disk = [path \in Paths |-> NoFile]
    /\ procs = [p \in Procs |-> Idle("never", <<>>, TRUE)]
    /\ lastWrite = [by |-> 0, doc |-> EmptyMap, failed |-> FALSE]
    /\ last = NoCall
    /\ rep = NoRep
    /\ nraw = EmptyRecord
    /\ nout = Raise("unset")
    /\ npc = "unused"

\* lines 129-136: the call starts
Enter(p, query, results) ==
    /\ procs[p].pc = "idle"
    /\ procs' = [q \in Procs |->
                    IF q = p
                    THEN [pc |-> "load", path |-> QueryPath(query),
                          results |-> results, items_info |-> EmptyMap,
                          err |-> "running",
                          alone |-> \A o \in Procs \ {p} : procs[o].pc = "idle"]
                    ELSE IF procs[q].pc = "idle" THEN procs[q]
                    ELSE [procs[q] EXCEPT !.alone = FALSE]]
    /\ UNCHANGED <<disk, lastWrite, last, rep, nraw, nout, npc>>

\* lines 138-142
LoadStep(p) ==
    /\ procs[p].pc = "load"
    /\ procs' = [procs EXCEPT ![p].items_info = Load(disk[procs[p].path]).val,
                              ![p].pc = "merge"]
    /\ UNCHANGED <<disk, lastWrite, last, rep, nraw, nout, npc>>

\* lines 144-158: a record that raises ends the call
MergeStep(p) ==
    /\ procs[p].pc = "merge"
    /\ \E merged \in {MergeLoop(procs[p].results, procs[p].items_info, <<>>)} :
           procs' = [procs EXCEPT ![p] =
                        IF merged.err # "none"
                        THEN Idle(merged.err, @.results, @.alone)
                        ELSE [@ EXCEPT !.items_info = merged.items_info,
                                       !.pc = "open"]]
    /\ UNCHANGED <<disk, lastWrite, last, rep, nraw, nout, npc>>

\* line 160: open(file_path, "w")
OpenStep(p) ==
    /\ procs[p].pc = "open"
    /\ disk' = [disk EXCEPT ![procs[p].path] = Garbage(0)]
    /\ procs' = [procs EXCEPT ![p].pc = "dump"]
    /\ UNCHANGED <<lastWrite, last, rep, nraw, nout, npc>>

\* line 161 and the end of the with block; the call returns (line 164)
DumpStep(p) ==
    /\ procs[p].pc = "dump"
    /\ disk' = [disk EXCEPT ![procs[p].path] =
                   WriteOver(DumpMapping(procs[p].items_info), @)]
    /\ procs' = [procs EXCEPT ![p] = Idle("none", @.results, @.alone)]
    /\ lastWrite' = [by |-> p, doc |-> procs[p].items_info,
                     failed |-> lastWrite.failed]
    /\ UNCHANGED <<last, rep, nraw, nout, npc>>

\* line 161 when the write fails: the error propagates, the file stays as
\* it is
DumpFail(p) ==
    /\ procs[p].pc = "dump"
    /\ procs' = [procs EXCEPT ![p] = Idle("OSError", @.results, @.alone)]
    /\ lastWrite' = [lastWrite EXCEPT !.failed = TRUE]
    /\ UNCHANGED <<disk, last, rep, nraw, nout, npc>>

NextConc ==
    \E p \in Procs :
        \/ \E query \in Queries, results \in ConcBatches : Enter(p, query, results)
        \/ LoadStep(p)
        \/ MergeStep(p)
        \/ OpenStep(p)
        \/ DumpStep(p)
        \/ DumpFail(p)

SpecConc == InitConc /\ [][NextConc]_vars

(***************************************************************************)
(* Claims on the record building, checked under SpecNorm.                  *)
(***************************************************************************)
Fields ==
    {"title", "contributors", "contributor", "description", "date", "id",
     "image_url", "digitized", "genre", "subject"}

AbsentOrNull(item) == \A f \in Fields : item[f] \in {Absent, Null}

\* C5: every raw record whose referenced fields are each absent or null is
\* normalised without an exception by both record builders, and the fields
\* that are absent take their defaults: title "", contributors [],
\* description "", link "", thumbnail "None", digitized false, genre null,
\* subjects null.
C5_NoErrorPath ==
    (npc # "start" /\ AbsentOrNull(nraw)) =>
        /\ nout.err = "none"
        /\ nraw.title = Absent => nout.val.title = EmptyStr
        /\ (nraw.contributors = Absent /\ nraw.contributor = Absent)
               => nout.val.contributors = List(<<>>)
        /\ nraw.description = Absent => nout.val.description = EmptyStr
        /\ nraw.id = Absent => nout.val.link = EmptyStr
        /\ nraw.image_url = Absent => nout.val.thumbnail = NoneMarker
        /\ nraw.digitized = Absent => nout.val.digitized = False
        /\ nraw.genre = Absent => nout.val.genre = Null
        /\ nraw.subject = Absent => nout.val.subjects = Null

\* C6: a record whose image_url is an empty sequence is normalised to the
\* thumbnail "None"; one whose image_url is a non-empty sequence to its first
\* element.
C6_ThumbnailEdgeCase ==
    (npc # "start" /\ nout.err = "none" /\ nraw.image_url.t = "list") =>
        IF Len(nraw.image_url.v) = 0
        THEN nout.val.thumbnail = NoneMarker
        ELSE nout.val.thumbnail = nraw.image_url.v[1]

\* what the contributors policy allows for a record: the plural value when
\* it is present and non-empty, else the singular value (a string X as the
\* one-element sequence [X]; an empty string may also count as no value),
\* else the empty sequence
AllowedContributors(item) ==
    IF Truthy(item.contributors) THEN {item.contributors}
    ELSE IF item.contributor.t = "list" THEN {item.contributor}
    ELSE IF item.contributor.t = "str"
         THEN IF Len(item.contributor.v) = 0
              THEN {List(<<>>), List(<<item.contributor>>)}
              ELSE {List(<<item.contributor>>)}
    ELSE {List(<<>>)}

\* C7: the contributors of a normalised record are the upstream contributors
\* when present and non-empty, else the upstream contributor, else empty; a
\* record {"contributor": X} without contributors yields the one-element
\* sequence [X].
C7_ContributorsFallback ==
    (npc # "start" /\ nout.err = "none") =>
        nout.val.contributors \in AllowedContributors(nraw)

(***************************************************************************)
(* Claims on whole calls, checked under Spec.                              *)
(***************************************************************************)
\* the identifiers of the records of a batch
BatchIds(results) == {results[i].id : i \in 1..Len(results)} \ {Absent}

\* the last record of a batch with a given identifier
LastWithId(results, id) ==
    results[CHOOSE i \in 1..Len(results) :
                /\ results[i].id = id
                /\ \A j \in (i + 1)..Len(results) : results[j].id # id]

AllNormalise(results) ==
    \A i \in 1..Len(results) : NormalizeSearchRecord(results[i]).err = "none"

AfterSearch == last.op = "process_results"

\* C1: after process_results on a bucket whose file holds a mapping, every
\* identifier of that mapping that is not the id of a record of the batch is
\* still a key of the persisted mapping, and of the returned one, with
\* exactly the record it had.
C1_NonDestructiveMerge ==
    (AfterSearch /\ last.before.kind = "json") =>
        \A k \in DOMAIN last.before.doc \ BatchIds(last.results) :
            /\ disk[last.path].kind = "json"
            /\ k \in DOMAIN disk[last.path].doc
            /\ disk[last.path].doc[k] = last.before.doc[k]
            /\ last.err = "none" =>
                   /\ k \in DOMAIN last.items_info
                   /\ last.items_info[k] = last.before.doc[k]

\* a bucket holding {A, B} was merged with a batch of C alone and holds
\* {A, B, C}
C1_Witness ==
    /\ AfterSearch
    /\ last.err = "none"
    /\ last.before.kind = "json"
    /\ DOMAIN last.before.doc = {IdA, IdB}
    /\ BatchIds(last.results) = {IdC}
    /\ DOMAIN disk[last.path].doc = {IdA, IdB, IdC}

\* the defaults of the fields of a stored record, by the upstream fields
\* that are absent from the raw record
DefaultsWhereAbsent(item, entry) ==
    /\ item.title = Absent => entry.title = EmptyStr
    /\ (item.contributors = Absent /\ item.contributor = Absent)
           => entry.contributors = List(<<>>)
    /\ item.description = Absent => entry.description = EmptyStr
    /\ item.digitized = Absent => entry.digitized = False
    /\ item.genre = Absent => entry.genre = Null
    /\ item.subject = Absent => entry.subjects = Null

\* C2: when a batch holds a record whose id is already a key of the bucket,
\* the entry stored for that id afterwards is the normalisation of the new
\* raw record alone (of the last one, if the batch holds several with that
\* id): fields absent from it hold their defaults, none is inherited.
C2_OverwriteOnRecurrence ==
    (AfterSearch /\ last.err = "none" /\ last.before.kind = "json") =>
        \A id \in BatchIds(last.results) \cap DOMAIN last.before.doc :
            LET item == LastWithId(last.results, id)
                entry == disk[last.path].doc[id]
            IN  /\ entry = item_info_search(item).val
                /\ last.items_info[id] = entry
                /\ DefaultsWhereAbsent(item, entry)

\* A was stored with a title and contributors, and a new A without them
\* was merged
C2_Witness ==
    /\ AfterSearch
    /\ last.err = "none"
    /\ last.before.kind = "json"
    /\ IdA \in DOMAIN last.before.doc
    /\ last.before.doc[IdA].title = StrOf(1)
    /\ last.before.doc[IdA].contributors = ListOf(1)
    /\ last.results = <<Raw(IdA, Absent, Absent, ListOf(1))>>
    /\ disk[last.path].doc[IdA].title = EmptyStr

\* C3: a call of process_results that repeats the bucket key and the raw
\* records of the call before it leaves on disk, and returns, what that
\* call left and returned.
C3_Idempotence ==
    rep.is =>
        /\ last.err = rep.err
        /\ disk[last.path] = rep.file
        /\ last.items_info = rep.items_info

\* a batch that stores A with contributors, over a bucket that held other
\* records, was merged twice in a row
C3_Witness ==
    /\ rep.is
    /\ last.err = "none"
    /\ Raw(IdA, StrOf(1), ListOf(1), ListOf(1)) \in
           {last.results[i] : i \in 1..Len(last.results)}
    /\ DOMAIN disk[last.path].doc # BatchIds(last.results)

\* C4: on a bucket file that is missing or does not parse, process_results
\* raises nothing on account of the file and merges into an empty mapping:
\* it fails only when a record of the batch cannot be normalised, and
\* otherwise persists and returns exactly the records of the batch.
C4_CorruptCacheRecovery ==
    (AfterSearch /\ last.before.kind \in {"absent", "garbage"}) =>
        /\ last.err = "none" <=> AllNormalise(last.results)
        /\ last.err \in {"none", "KeyError", "TypeError"}
        /\ last.err = "none" =>
               /\ DOMAIN last.items_info = BatchIds(last.results)
               /\ \A id \in BatchIds(last.results) :
                      last.items_info[id] =
                          item_info_search(LastWithId(last.results, id)).val
               /\ disk[last.path] = [kind |-> "json", doc |-> last.items_info]

\* a batch of two records was merged over a file that did not parse
C4_Witness ==
    /\ AfterSearch
    /\ last.before.kind = "garbage"
    /\ last.err = "none"
    /\ BatchIds(last.results) = {IdA, IdB}
    /\ DOMAIN disk[last.path].doc = {IdA, IdB}

\* C10: when a record of the batch raises in process_results, the bucket
\* file is what it was before the call (or still absent): none of the
\* records normalised before the failing one is persisted.
C10_FailingBatchPersistsNothing ==
    (AfterSearch /\ last.err # "none") => disk[last.path] = last.before

\* a batch whose first record normalises, with an id the bucket does not
\* hold, and whose second record has no id
C10_Witness ==
    /\ AfterSearch
    /\ last.err = "KeyError"
    /\ Len(last.results) = 2
    /\ NormalizeSearchRecord(last.results[1]).err = "none"
    /\ last.results[2].id = Absent
    /\ last.before.kind = "json"
    /\ last.results[1].id \notin DOMAIN last.before.doc

(***************************************************************************)
(* Claims on the files under interleaved and failing calls, checked under  *)
(* SpecConc.                                                               *)
(***************************************************************************)
Quiescent == \A p \in Procs : procs[p].pc = "idle"

\* C8: in every state that calls of process_results leave behind, the state
\* after a call that raised or whose write failed included, a bucket file
\* that exists holds valid JSON with a mapping at the top.
C8_OnDiskValidity ==
    Quiescent => \A path \in Paths : disk[path].kind \in {"absent", "json"}

\* C9: once two invocations on one bucket have both returned, whatever the
\* interleaving of their steps, the bucket file is exactly the mapping
\* written by the one that wrote last; when they ran one after the other,
\* it holds the identifiers of both.
C9_LastWriterWins ==
    (/\ Quiescent
     /\ \A p \in Procs : procs[p].err = "none"
     /\ ~lastWrite.failed) =>
        \A query \in Queries :
            /\ disk[QueryPath(query)] = DumpMapping(lastWrite.doc)
            /\ (\A p \in Procs : procs[p].alone) =>
                   \A p \in Procs :
                       BatchIds(procs[p].results) \subseteq
                           DOMAIN disk[QueryPath(query)].doc

====
